---- MODULE Spec2Model ----
(***************************************************************************)
(* Model of graphrag's prompt-tuning CLI entry point                       *)
(* (graphrag/prompt_tune/cli.py) and of the query API                      *)
(* (graphrag/query/api.py).                                                *)
(*                                                                         *)
(* prompt_tune is a coroutine; it is run as the main coroutine of an       *)
(* asyncio event loop.  A second coroutine of the same loop (the client)   *)
(* calls the synchronous functions global_search and local_search.  The    *)
(* loop runs one coroutine at a time and switches only when the running    *)
(* coroutine suspends; it stops when the main coroutine has finished.      *)
(*                                                                         *)
(* The collaborators defined outside the two files (read_config_parameters,*)
(* generate_indexing_prompts, the indexer adapters, the engine factories,  *)
(* the vector stores, the file system) are modelled by their calls: each   *)
(* call is recorded with its arguments, returns an uninterpreted value and *)
(* may raise.                                                              *)
(***************************************************************************)
EXTENDS Integers, Sequences, FiniteSets, TLC

\* ------------------------------------------------------------------ bounds

\* longest `output` argument, counted in tokens of OutputAlphabet
MaxLen == 2
\* number of search calls the client coroutine makes
MaxCalls == 2

\* ------------------------------------------------------------ prompt_tune

ENTITY_EXTRACTION_FILENAME == "entity_extraction.txt"
ENTITY_SUMMARIZATION_FILENAME == "summarize_descriptions.txt"
COMMUNITY_SUMMARIZATION_FILENAME == "community_report.txt"

\* the file that receives prompts[i], in the order of the three with-blocks
FileNameOfSwapped(i) ==
    IF i = 1 THEN ENTITY_SUMMARIZATION_FILENAME
    ELSE IF i = 2 THEN ENTITY_EXTRACTION_FILENAME
    ELSE COMMUNITY_SUMMARIZATION_FILENAME

FileNameOf(i) ==
    IF i = 1 THEN ENTITY_EXTRACTION_FILENAME
    ELSE IF i = 2 THEN ENTITY_SUMMARIZATION_FILENAME
    ELSE COMMUNITY_SUMMARIZATION_FILENAME

FileNames == {FileNameOf(i) : i \in 1..3}

\* An `output` string is a sequence of tokens: a name without a slash, or "/".
OutputAlphabet == {"prompts", "/"}
DefaultOutput == <<"prompts">>

Strings(n) == UNION {[1..k -> OutputAlphabet] : k \in 0..n}
Outputs == Strings(MaxLen)

\* ---- pathlib.Path(output) on a POSIX system

RECURSIVE LeadingSlashes(_)
LeadingSlashes(s) ==
    IF s = <<>> \/ Head(s) # "/" THEN 0 ELSE 1 + LeadingSlashes(Tail(s))

\* s split at every "/" (str.split("/")): a non-empty sequence of components
RECURSIVE SplitSlash(_)
SplitSlash(s) ==
    IF s = <<>> THEN << <<>> >>
    ELSE LET r == SplitSlash(Tail(s))
         IN  IF Head(s) = "/" THEN << <<>> >> \o r
             ELSE << <<Head(s)>> \o Head(r) >> \o Tail(r)

\* empty components and "." components are dropped
RECURSIVE KeepParts(_)
KeepParts(cs) ==
    IF cs = <<>> THEN <<>>
    ELSE IF Head(cs) = <<>> \/ Head(cs) = <<".">> THEN KeepParts(Tail(cs))
    ELSE <<Head(cs)>> \o KeepParts(Tail(cs))

\* exactly two leading slashes are kept, any other number is one root
Path(s) ==
    [anchor |-> LET n == LeadingSlashes(s)
                IN  IF n = 0 THEN "" ELSE IF n = 2 THEN "//" ELSE "/",
     parts  |-> KeepParts(SplitSlash(s))]

\* Path("") and Path(".") are the current directory
CurDir == [anchor |-> "", parts |-> <<>>]
NoPath == [anchor |-> "unset", parts |-> <<>>]

\* truth value of `if output_path:` were the test made on the string
PathTruthOfString(p) == p # CurDir

\* truth value of `if output_path:`; PurePath defines neither __bool__ nor
\* __len__, so every Path object is true
PathTruth(p) == TRUE

\* the path and its ancestors, created by mkdir(parents=True)
WithParents(p) ==
    {[anchor |-> p.anchor, parts |-> SubSeq(p.parts, 1, k)] : k \in 1..Len(p.parts)}

\* ---- str.encode(encoding="utf-8", errors="strict")

IsSurrogate(cp) == cp >= 55296 /\ cp <= 57343

EncodeCodePoint(cp) ==
    IF cp < 128 THEN <<cp>>
    ELSE IF cp < 2048 THEN <<192 + (cp \div 64), 128 + (cp % 64)>>
    ELSE IF cp < 65536
         THEN <<224 + (cp \div 4096), 128 + ((cp \div 64) % 64), 128 + (cp % 64)>>
    ELSE <<240 + (cp \div 262144), 128 + ((cp \div 4096) % 64),
           128 + ((cp \div 64) % 64), 128 + (cp % 64)>>

RECURSIVE Encode(_)
Encode(s) ==
    IF s = <<>> THEN <<>> ELSE EncodeCodePoint(Head(s)) \o Encode(Tail(s))

\* strict error handling: a lone surrogate raises UnicodeEncodeError
Encodable(s) == \A i \in 1..Len(s) : ~IsSurrogate(s[i])

\* prompts are strings of code points: an ASCII character, a 2-byte and a
\* 4-byte character, and one that cannot be encoded
PromptSet == {<<65>>, <<233, 128512>>, <<55296>>}
StaleBytes == <<0>>

\* --------------------------------------------------------------- state

VARIABLES
    running,      \* the coroutine the event loop is running: "tune", "client", "none"
    t_pc,         \* prompt_tune: position in the function body
    output,       \* prompt_tune: the `output` argument
    prompts,      \* prompt_tune: the tuple returned by generate_indexing_prompts
    output_path,  \* prompt_tune: the local output_path
    k,            \* prompt_tune: which of the three with-blocks is next (1..3)
    dirs,         \* file system: the directories that exist, besides the roots
    files,        \* file system: <<directory, name>> -> bytes
    t_result,     \* prompt_tune: how the call ended
    t_trace,      \* prompt_tune: the calls it made, in order
    config,       \* the caller's config.embeddings.vector_store
    config0,      \* its value before the first search call
    calls,        \* search calls completed by the client
    fr            \* the running search call: arguments, locals, calls made

tuneVars == <<t_pc, output, prompts, output_path, k, dirs, files, t_result, t_trace>>
clientVars == <<config, config0, calls, fr>>
vars == <<running, tuneVars, clientVars>>

Ev(op, arg, res) == [op |-> op, arg |-> arg, res |-> res]

DirExists(p) == p.parts = <<>> \/ p \in dirs

Put(f, key, v) == [x \in DOMAIN f \cup {key} |-> IF x = key THEN v ELSE f[x]]

\* ---- the event loop's view of prompt_tune

\* the places where prompt_tune can hand control back to the event loop, had the
\* file writes been awaited as well
SuspendsAtWrites(pc) == pc \in {"generate", "write"}

\* the places where prompt_tune can hand control back to the event loop: the
\* body holds one await expression
Suspends(pc) == pc = "generate"

MaySuspend(pc) == IF Suspends(pc) THEN BOOLEAN ELSE {FALSE}

TuneDone == t_pc \in {"returned", "raised"}

\* an exception raised by a callee were it caught and dropped
TuneSwallow(exc) == [pc |-> "returned", result |-> [status |-> "returned", value |-> "None"]]

\* an exception raised by a callee leaves prompt_tune: the body has no try
TuneRaise(exc) == [pc |-> "raised", result |-> [status |-> "raised", value |-> exc]]

TuneFail(exc) ==
    /\ t_pc' = TuneRaise(exc).pc
    /\ t_result' = TuneRaise(exc).result
    /\ running' = "none"

\* the order of the statements of the body after the await, were the directory
\* made and the files written out of order
TuneNextPcReordered(pc, i) ==
    IF pc = "read_config" THEN [pc |-> "mkdir", k |-> i]
    ELSE IF pc = "mkdir" THEN [pc |-> "generate", k |-> i]
    ELSE IF pc = "generate" THEN [pc |-> "awaiting", k |-> i]
    ELSE IF pc = "awaiting" THEN [pc |-> "path", k |-> i]
    ELSE IF pc = "path" THEN [pc |-> "open", k |-> i]
    ELSE IF pc = "open" THEN [pc |-> "write", k |-> i]
    ELSE IF i < 3 THEN [pc |-> "open", k |-> i + 1]
    ELSE [pc |-> "returned", k |-> i]

\* the order of the with-blocks, were the second file written before the first
TuneNextPcSecondFirst(pc, i) ==
    IF pc = "read_config" THEN [pc |-> "generate", k |-> i]
    ELSE IF pc = "generate" THEN [pc |-> "awaiting", k |-> i]
    ELSE IF pc = "awaiting" THEN [pc |-> "path", k |-> i]
    ELSE IF pc = "path" THEN [pc |-> "mkdir", k |-> i]
    ELSE IF pc = "mkdir" THEN [pc |-> "open", k |-> 2]
    ELSE IF pc = "open" THEN [pc |-> "write", k |-> i]
    ELSE IF i = 2 THEN [pc |-> "open", k |-> 1]
    ELSE IF i = 1 THEN [pc |-> "open", k |-> 3]
    ELSE [pc |-> "returned", k |-> i]

\* the order of the statements of the body: read the configuration, await the
\* generation, build the path, make the directory, then the three with-blocks
TuneNextPc(pc, i) ==
    IF pc = "read_config" THEN [pc |-> "generate", k |-> i]
    ELSE IF pc = "generate" THEN [pc |-> "awaiting", k |-> i]
    ELSE IF pc = "awaiting" THEN [pc |-> "path", k |-> i]
    ELSE IF pc = "path" THEN [pc |-> "mkdir", k |-> i]
    ELSE IF pc = "mkdir" THEN [pc |-> "open", k |-> i]
    ELSE IF pc = "open" THEN [pc |-> "write", k |-> i]
    ELSE IF i < 3 THEN [pc |-> "open", k |-> i + 1]
    ELSE [pc |-> "returned", k |-> i]

\* control after a statement that completed
TuneGo(susp) ==
    LET n == TuneNextPc(t_pc, k)
    IN  /\ t_pc' = n.pc
        /\ k' = n.k
        /\ t_result' = IF n.pc = "returned"
                       THEN [status |-> "returned", value |-> "None"]
                       ELSE t_result
        /\ running' = IF susp \/ n.pc = "returned" THEN "none" ELSE "tune"

\* ---- prompt_tune, statement by statement

\* reporter = PrintProgressReporter(""); graph_config = read_config_parameters(...)
TuneReadConfig ==
    /\ running = "tune" /\ t_pc = "read_config"
    /\ \E ok \in BOOLEAN :
        /\ t_trace' = Append(t_trace,
                Ev("read_config_parameters", "", IF ok THEN "ok" ELSE "raise"))
        /\ IF ok THEN TuneGo(FALSE)
                 ELSE TuneFail("read_config_parameters") /\ k' = k
    /\ UNCHANGED <<output, prompts, output_path, dirs, files, clientVars>>

\* await api.generate_indexing_prompts(...): the call is made; the coroutine may
\* be suspended until the result is there
TuneCallGenerate ==
    /\ running = "tune" /\ t_pc = "generate"
    /\ \E susp \in MaySuspend(t_pc) : TuneGo(susp)
    /\ UNCHANGED <<output, prompts, output_path, dirs, files, t_trace, clientVars>>

\* the event loop resumes prompt_tune
LoopResumeTune ==
    /\ running = "none" /\ ~TuneDone
    /\ running' = "tune"
    /\ UNCHANGED <<tuneVars, clientVars>>

\* the awaited call returns the three prompts, or raises
TuneAwaitReturn ==
    /\ running = "tune" /\ t_pc = "awaiting"
    /\ \/ \E ps \in [1..3 -> PromptSet] :
            /\ prompts' = ps
            /\ t_trace' = Append(t_trace, Ev("generate_indexing_prompts", "", "ok"))
            /\ TuneGo(FALSE)
       \/ /\ t_trace' = Append(t_trace, Ev("generate_indexing_prompts", "", "raise"))
          /\ TuneFail("generate_indexing_prompts")
          /\ UNCHANGED <<prompts, k>>
    /\ UNCHANGED <<output, output_path, dirs, files, clientVars>>

\* output_path = Path(output); if output_path:
TunePath ==
    /\ running = "tune" /\ t_pc = "path"
    /\ output_path' = Path(output)
    /\ IF PathTruth(Path(output))
       THEN TuneGo(FALSE)
       ELSE /\ t_pc' = "returned"
            /\ t_result' = [status |-> "returned", value |-> "None"]
            /\ running' = "none"
            /\ k' = k
    /\ UNCHANGED <<output, prompts, dirs, files, t_trace, clientVars>>

\* reporter.info(...); output_path.mkdir(parents=True, exist_ok=True)
TuneMkdir ==
    /\ running = "tune" /\ t_pc = "mkdir"
    /\ LET p == Path(output)
       IN  \/ /\ dirs' = dirs \cup WithParents(p)
              /\ t_trace' = Append(t_trace, Ev("mkdir", "", "ok"))
              /\ \E susp \in MaySuspend(t_pc) : TuneGo(susp)
           \/ /\ ~DirExists(p)
              /\ \E n \in 0..(Len(p.parts) - 1) :
                    dirs' = dirs \cup {q \in WithParents(p) : Len(q.parts) <= n}
              /\ t_trace' = Append(t_trace, Ev("mkdir", "", "raise"))
              /\ TuneFail("mkdir")
              /\ k' = k
    /\ UNCHANGED <<output, prompts, output_path, files, clientVars>>

\* with (output_path / NAME).open("wb") as file: the file is created or truncated
TuneOpen ==
    /\ running = "tune" /\ t_pc = "open"
    /\ LET name == FileNameOf(k)
       IN  \/ /\ files' = Put(files, <<Path(output), name>>, <<>>)
              /\ t_trace' = Append(t_trace, Ev("open", name, "ok"))
              /\ \E susp \in MaySuspend(t_pc) : TuneGo(susp)
           \/ /\ t_trace' = Append(t_trace, Ev("open", name, "raise"))
              /\ TuneFail("open")
              /\ UNCHANGED <<files, k>>
    /\ UNCHANGED <<output, prompts, output_path, dirs, clientVars>>

\* file.write(prompts[i].encode(encoding="utf-8", errors="strict")), and the
\* close at the end of the with-block
TuneWrite ==
    /\ running = "tune" /\ t_pc = "write"
    /\ LET name == FileNameOf(k)
           key  == <<Path(output), name>>
           text == prompts[k]
       IN  IF ~Encodable(text)
           THEN /\ t_trace' = Append(t_trace, Ev("encode", name, "raise"))
                /\ TuneFail("encode")
                /\ UNCHANGED <<files, k>>
           ELSE \/ /\ files' = Put(files, key, Encode(text))
                   /\ t_trace' = Append(t_trace, Ev("write", name, "ok"))
                   /\ \E susp \in MaySuspend(t_pc) : TuneGo(susp)
                \/ /\ \E n \in 0..(Len(Encode(text)) - 1) :
                        files' = Put(files, key, SubSeq(Encode(text), 1, n))
                   /\ t_trace' = Append(t_trace, Ev("write", name, "raise"))
                   /\ TuneFail("write")
                   /\ k' = k
    /\ UNCHANGED <<output, prompts, output_path, dirs, clientVars>>

TuneNext ==
    \/ TuneReadConfig
    \/ TuneCallGenerate
    \/ LoopResumeTune
    \/ TuneAwaitReturn
    \/ TunePath
    \/ TuneMkdir
    \/ TuneOpen
    \/ TuneWrite

\* ------------------------------------------------- global_search, local_search

\* VectorStoreType.LanceDB, the default vector store type
LanceDB == "lancedb"
AzureAISearch == "azure_ai_search"

\* config.embeddings.vector_store: None, or a dict.  A dict is a function from
\* the keys it holds.
NoneConfig == [none |-> TRUE, d |-> <<>>]
DictConfig(d) == [none |-> FALSE, d |-> d]

ConfigDicts ==
    { <<>>,
      [type |-> AzureAISearch],
      [query_collection_name |-> "my_entities"],
      [collection_name |-> "old_name"],
      [overwrite |-> TRUE],
      [overwrite |-> FALSE, db_uri |-> "./mydb"],
      [query_collection_name |-> "my_entities", collection_name |-> "old_name"],
      [type |-> AzureAISearch, query_collection_name |-> "my_entities",
       collection_name |-> "old_name", overwrite |-> TRUE, db_uri |-> "./mydb"] }

Configs == {NoneConfig} \cup {DictConfig(d) : d \in ConfigDicts}

Queries == {"who?", "what?"}

\* result.response: a string, a single record, a sequence of records
Responses == {<<"str", "answer">>, <<"dict", "r1">>, <<"list", "r1", "r2">>}

\* dict.get(key, default)
Get(d, key, default) == IF key \in DOMAIN d THEN d[key] ELSE default

\* the truth value of a dict: an empty dict is false
DictTruth(d) == DOMAIN d # {}

IdleFrame ==
    [fn |-> "none", pc |-> "idle", query |-> "", final_covariates |-> "None",
     args_ref |-> "unset", tmp |-> <<>>, vector_store_type |-> "unset",
     entities |-> <<>>, collection_name |-> "unset", stores |-> <<>>, store |-> 0,
     covariates |-> <<>>, engine |-> <<>>, search_result |-> <<>>,
     trace |-> <<>>, log |-> <<>>,
     result |-> [status |-> "running", value |-> <<>>]]

\* the dict the local vector_store_args / config_args refers to
ArgsDict == IF fr.args_ref = "cfg" THEN config.d ELSE fr.tmp

\* the name resolved were an existing "collection_name" entry given precedence
ResolveCollectionNameKeepOld(config_args) ==
    Get(config_args, "collection_name",
        Get(config_args, "query_collection_name", "entity_description_embeddings"))

\* collection_name = config_args.get("query_collection_name", "entity_description_embeddings")
ResolveCollectionName(config_args) ==
    Get(config_args, "query_collection_name", "entity_description_embeddings")

\* the branch taken were the default of "overwrite" True
OverwriteDefaultTrue(config_args) == Get(config_args, "overwrite", TRUE) = TRUE

\* if config_args.get("overwrite", False):
Overwrite(config_args) == Get(config_args, "overwrite", FALSE) = TRUE

\* covariates, were the adapter called whatever final_covariates is
CovariatesAlways(final_covariates) ==
    [calls |-> <<Ev("read_indexer_covariates", final_covariates, "ok")>>,
     value |-> <<"read_indexer_covariates", final_covariates>>]

\* covariates = read_indexer_covariates(final_covariates)
\*              if final_covariates is not None else []
Covariates(final_covariates) ==
    IF final_covariates # "None"
    THEN [calls |-> <<Ev("read_indexer_covariates", final_covariates, "ok")>>,
          value |-> <<"read_indexer_covariates", final_covariates>>]
    ELSE [calls |-> <<>>, value |-> <<>>]

\* the value returned, were the response converted to a string
SearchReturnStr(result) == <<"str", result.response[2]>>

\* return result.response
SearchReturn(result) == result.response

\* an exception raised by a callee were it caught and the call ended normally
SearchSwallow(exc) == [pc |-> "returned", result |-> [status |-> "returned", value |-> <<>>]]

\* an exception raised by a callee leaves the search function: no try in either
SearchRaise(exc) == [pc |-> "raised", result |-> [status |-> "raised", value |-> <<exc>>]]

\* the places where a search function would hand control back to the event loop,
\* were the engine's search awaited
SearchSuspendsAtSearch(pc) == pc = "search"

\* the places where a search function hands control back to the event loop: both
\* are plain functions, without an await
SearchSuspends(pc) == FALSE

\* the order of the statements of the two functions; ow is the outcome of the
\* test of "overwrite" in __get_embedding_description_store
SearchNextPc(fn, pc, ow) ==
    IF fn = "global_search" THEN
        IF pc = "start" THEN "g_reports"
        ELSE IF pc = "g_reports" THEN "g_entities"
        ELSE IF pc = "g_entities" THEN "g_engine"
        ELSE IF pc = "g_engine" THEN "search"
        ELSE IF pc = "search" THEN "finish"
        ELSE "returned"
    ELSE
        IF pc = "start" THEN "l_args"
        ELSE IF pc = "l_args" THEN "l_entities"
        ELSE IF pc = "l_entities" THEN "ge_resolve"
        ELSE IF pc = "ge_resolve" THEN "ge_factory"
        ELSE IF pc = "ge_factory" THEN "ge_connect"
        ELSE IF pc = "ge_connect" THEN (IF ow THEN "ge_store" ELSE "ge_lance")
        ELSE IF pc = "ge_store" THEN "l_covariates"
        ELSE IF pc = "ge_lance" THEN "ge_lance_connect"
        ELSE IF pc = "ge_lance_connect" THEN "ge_open_table"
        ELSE IF pc = "ge_open_table" THEN "l_covariates"
        ELSE IF pc = "l_covariates" THEN "l_reports"
        ELSE IF pc = "l_reports" THEN "l_text_units"
        ELSE IF pc = "l_text_units" THEN "l_relationships"
        ELSE IF pc = "l_relationships" THEN "l_engine"
        ELSE IF pc = "l_engine" THEN "search"
        ELSE IF pc = "search" THEN "finish"
        ELSE "returned"

ClientAt(pc) == running = "client" /\ fr.pc = pc

\* control after a statement that completed, f being the frame it leaves
ClientGo(f, ow) ==
    /\ fr' = [f EXCEPT !.pc = SearchNextPc(fr.fn, fr.pc, ow)]
    /\ running' = IF SearchSuspends(fr.pc) THEN "none" ELSE "client"

\* a callee raised
ClientFail(op, arg) ==
    /\ fr' = [fr EXCEPT !.pc = SearchRaise(op).pc,
                        !.result = SearchRaise(op).result,
                        !.trace = Append(@, Ev(op, arg, "raise"))]
    /\ running' = "client"

\* a call of an external function that returns the uninterpreted value
\* <<op, arg>> or raises; f is the frame should it return
ClientCall(op, arg, f) ==
    \/ ClientGo([f EXCEPT !.trace = Append(@, Ev(op, arg, "ok"))], FALSE)
    \/ ClientFail(op, arg)

\* ---- the client coroutine

\* the event loop runs the client: it makes its next call of global_search or
\* local_search, or goes on where it was suspended
LoopRunClient ==
    /\ running = "none" /\ ~TuneDone
    /\ fr.pc \notin {"returned", "raised"}
    /\ fr.pc = "idle" => calls < MaxCalls
    /\ IF fr.pc = "idle"
       THEN \E fn \in {"global_search", "local_search"}, q \in Queries,
               cov \in {"None", "final_covariates"} :
                /\ fn = "global_search" => cov = "None"
                /\ fr' = [IdleFrame EXCEPT !.fn = fn,
                                           !.pc = SearchNextPc(fn, "start", FALSE),
                                           !.query = q,
                                           !.final_covariates = cov]
       ELSE fr' = fr
    /\ running' = "client"
    /\ UNCHANGED <<tuneVars, config, config0, calls>>

\* the call has ended; the client keeps nothing of it and lets the loop go on
ClientYield ==
    /\ running = "client" /\ fr.pc \in {"returned", "raised"}
    /\ calls' = calls + 1
    /\ fr' = IdleFrame
    /\ running' = "none"
    /\ UNCHANGED <<tuneVars, config, config0>>

\* ---- global_search

ReportsArg == <<"final_community_reports", "final_nodes", "community_level">>
EntitiesArg == <<"final_nodes", "final_entities", "community_level">>

\* reports = read_indexer_reports(final_community_reports, final_nodes, community_level)
GReports ==
    /\ ClientAt("g_reports")
    /\ ClientCall("read_indexer_reports", ReportsArg, fr)
    /\ UNCHANGED <<tuneVars, config, config0, calls>>

\* entities = read_indexer_entities(final_nodes, final_entities, community_level)
GEntities ==
    /\ ClientAt("g_entities")
    /\ ClientCall("read_indexer_entities", EntitiesArg,
                  [fr EXCEPT !.entities = <<"read_indexer_entities", EntitiesArg>>])
    /\ UNCHANGED <<tuneVars, config, config0, calls>>

\* search_engine = get_global_search_engine(config, reports=, entities=, response_type=)
GEngine ==
    /\ ClientAt("g_engine")
    /\ LET kw == [reports |-> <<"read_indexer_reports", ReportsArg>>,
                  entities |-> fr.entities,
                  response_type |-> "response_type"]
       IN  ClientCall("get_global_search_engine", kw, [fr EXCEPT !.engine = kw])
    /\ UNCHANGED <<tuneVars, config, config0, calls>>

\* result = search_engine.search(query=query), in either function
Search ==
    /\ ClientAt("search")
    /\ \/ \E r \in Responses :
            ClientGo([fr EXCEPT !.search_result = [response |-> r, context_data |-> "ctx"],
                                !.trace = Append(@, Ev("search", fr.query, "ok"))], FALSE)
       \/ ClientFail("search", fr.query)
    /\ UNCHANGED <<tuneVars, config, config0, calls>>

\* reporter.success(f"... {result.response}"); return result.response
Finish ==
    /\ ClientAt("finish")
    /\ ClientGo([fr EXCEPT !.log = Append(@, [level |-> "success",
                                              msg |-> fr.search_result.response]),
                           !.result = [status |-> "returned",
                                       value |-> SearchReturn(fr.search_result)]], FALSE)
    /\ UNCHANGED <<tuneVars, config, config0, calls>>

\* ---- local_search

\* vector_store_args = config.embeddings.vector_store if ... else {};
\* reporter.info(...); vector_store_type = vector_store_args.get("type", LanceDB)
LArgs ==
    /\ ClientAt("l_args")
    /\ LET ref  == IF ~config.none /\ DictTruth(config.d) THEN "cfg" ELSE "tmp"
           args == IF ref = "cfg" THEN config.d ELSE <<>>
       IN  ClientGo([fr EXCEPT !.args_ref = ref,
                               !.tmp = <<>>,
                               !.log = Append(@, [level |-> "info", msg |-> args]),
                               !.vector_store_type = Get(args, "type", LanceDB)], FALSE)
    /\ UNCHANGED <<tuneVars, config, config0, calls>>

\* entities = read_indexer_entities(final_nodes, final_entities, community_level)
LEntities ==
    /\ ClientAt("l_entities")
    /\ ClientCall("read_indexer_entities", EntitiesArg,
                  [fr EXCEPT !.entities = <<"read_indexer_entities", EntitiesArg>>])
    /\ UNCHANGED <<tuneVars, config, config0, calls>>

\* __get_embedding_description_store: if not config_args: config_args = {};
\* collection_name = ...; config_args.update({"collection_name": collection_name})
GetStoreResolve ==
    /\ ClientAt("ge_resolve")
    /\ LET args == ArgsDict
           ref  == IF DictTruth(args) THEN fr.args_ref ELSE "tmp"
           name == ResolveCollectionName(args)
           upd  == Put(args, "collection_name", name)
       IN  /\ config' = IF ref = "cfg" THEN [config EXCEPT !.d = upd] ELSE config
           /\ ClientGo([fr EXCEPT !.args_ref = ref,
                                  !.tmp = IF ref = "tmp" THEN upd ELSE @,
                                  !.collection_name = name], FALSE)
    /\ UNCHANGED <<tuneVars, config0, calls>>

\* description_embedding_store = VectorStoreFactory.get_vector_store(
\*     vector_store_type=vector_store_type, kwargs=config_args)
GetStoreFactory ==
    /\ ClientAt("ge_factory")
    /\ LET st == [cls |-> <<"VectorStoreFactory", fr.vector_store_type>>,
                  ctor |-> ArgsDict, connects |-> <<>>, stored |-> <<>>,
                  document_collection |-> <<>>]
       IN  ClientCall("get_vector_store", <<fr.vector_store_type, ArgsDict>>,
                      [fr EXCEPT !.stores = <<st>>, !.store = 1])
    /\ UNCHANGED <<tuneVars, config, config0, calls>>

\* description_embedding_store.connect(**config_args); then the test of "overwrite"
GetStoreConnect ==
    /\ ClientAt("ge_connect")
    /\ \/ ClientGo([fr EXCEPT !.stores[fr.store].connects = Append(@, ArgsDict),
                              !.trace = Append(@, Ev("connect", ArgsDict, "ok"))],
                   Overwrite(ArgsDict))
       \/ ClientFail("connect", ArgsDict)
    /\ UNCHANGED <<tuneVars, config, config0, calls>>

\* store_entity_semantic_embeddings(entities=entities, vectorstore=description_embedding_store)
GetStoreEmbed ==
    /\ ClientAt("ge_store")
    /\ ClientCall("store_entity_semantic_embeddings", <<fr.entities, fr.store>>,
                  [fr EXCEPT !.stores[fr.store].stored = Append(@, fr.entities)])
    /\ UNCHANGED <<tuneVars, config, config0, calls>>

\* description_embedding_store = LanceDBVectorStore(collection_name=collection_name)
GetStoreLance ==
    /\ ClientAt("ge_lance")
    /\ LET st == [cls |-> <<"LanceDBVectorStore">>,
                  ctor |-> [collection_name |-> fr.collection_name],
                  connects |-> <<>>, stored |-> <<>>, document_collection |-> <<>>]
       IN  ClientGo([fr EXCEPT !.stores = Append(@, st),
                               !.store = Len(fr.stores) + 1,
                               !.trace = Append(@, Ev("LanceDBVectorStore",
                                                      fr.collection_name, "ok"))], FALSE)
    /\ UNCHANGED <<tuneVars, config, config0, calls>>

\* description_embedding_store.connect(db_uri=config_args.get("db_uri", "./lancedb"))
GetStoreLanceConnect ==
    /\ ClientAt("ge_lance_connect")
    /\ LET kw == [db_uri |-> Get(ArgsDict, "db_uri", "./lancedb")]
       IN  \/ ClientGo([fr EXCEPT !.stores[fr.store].connects = Append(@, kw),
                                  !.trace = Append(@, Ev("connect", kw, "ok"))], FALSE)
           \/ ClientFail("connect", kw)
    /\ UNCHANGED <<tuneVars, config, config0, calls>>

\* description_embedding_store.document_collection =
\*     description_embedding_store.db_connection.open_table(
\*         description_embedding_store.collection_name)
GetStoreOpenTable ==
    /\ ClientAt("ge_open_table")
    /\ LET name == fr.stores[fr.store].ctor.collection_name
       IN  ClientCall("open_table", name,
                      [fr EXCEPT !.stores[fr.store].document_collection =
                                      <<"open_table", name>>])
    /\ UNCHANGED <<tuneVars, config, config0, calls>>

\* covariates = read_indexer_covariates(final_covariates)
\*              if final_covariates is not None else []
LCovariates ==
    /\ ClientAt("l_covariates")
    /\ LET c == Covariates(fr.final_covariates)
       IN  \/ ClientGo([fr EXCEPT !.covariates = c.value,
                                  !.trace = @ \o c.calls], FALSE)
           \/ /\ c.calls # <<>>
              /\ ClientFail("read_indexer_covariates", fr.final_covariates)
    /\ UNCHANGED <<tuneVars, config, config0, calls>>

\* reports=read_indexer_reports(final_community_reports, final_nodes, community_level)
LReports ==
    /\ ClientAt("l_reports")
    /\ ClientCall("read_indexer_reports", ReportsArg, fr)
    /\ UNCHANGED <<tuneVars, config, config0, calls>>

\* text_units=read_indexer_text_units(final_text_units)
LTextUnits ==
    /\ ClientAt("l_text_units")
    /\ ClientCall("read_indexer_text_units", <<"final_text_units">>, fr)
    /\ UNCHANGED <<tuneVars, config, config0, calls>>

\* relationships=read_indexer_relationships(final_relationships)
LRelationships ==
    /\ ClientAt("l_relationships")
    /\ ClientCall("read_indexer_relationships", <<"final_relationships">>, fr)
    /\ UNCHANGED <<tuneVars, config, config0, calls>>

\* search_engine = get_local_search_engine(config, reports=, text_units=, entities=,
\*     relationships=, covariates={"claims": covariates},
\*     description_embedding_store=, response_type=)
LEngine ==
    /\ ClientAt("l_engine")
    /\ LET kw == [reports |-> <<"read_indexer_reports", ReportsArg>>,
                  text_units |-> <<"read_indexer_text_units", <<"final_text_units">> >>,
                  entities |-> fr.entities,
                  relationships |-> <<"read_indexer_relationships",
                                      <<"final_relationships">> >>,
                  covariates |-> [claims |-> fr.covariates],
                  description_embedding_store |-> fr.store,
                  response_type |-> "response_type"]
       IN  ClientCall("get_local_search_engine", kw, [fr EXCEPT !.engine = kw])
    /\ UNCHANGED <<tuneVars, config, config0, calls>>

SearchNext ==
    \/ LoopRunClient
    \/ ClientYield
    \/ GReports
    \/ GEntities
    \/ GEngine
    \/ Search
    \/ Finish
    \/ LArgs
    \/ LEntities
    \/ GetStoreResolve
    \/ GetStoreFactory
    \/ GetStoreConnect
    \/ GetStoreEmbed
    \/ GetStoreLance
    \/ GetStoreLanceConnect
    \/ GetStoreOpenTable
    \/ LCovariates
    \/ LReports
    \/ LTextUnits
    \/ LRelationships
    \/ LEngine

\* ---------------------------------------------------------- specification

\* the files found before the run: stale prompt files in the current directory
\* and in ./prompts; every other directory is yet to be made
InitialDirs == {Path(DefaultOutput)}
InitialFiles == [x \in {CurDir, Path(DefaultOutput)} \X FileNames |-> StaleBytes]

Init ==
    /\ running = "tune"
    /\ t_pc = "read_config"
    /\ output \in Outputs
    /\ prompts = <<>>
    /\ output_path = NoPath
    /\ k = 1
    /\ dirs = InitialDirs
    /\ files = InitialFiles
    /\ t_result = [status |-> "running", value |-> "None"]
    /\ t_trace = <<>>
    /\ config \in Configs
    /\ config0 = config
    /\ calls = 0
    /\ fr = IdleFrame

Next == TuneNext \/ SearchNext

Spec == Init /\ [][Next]_vars

\* ------------------------------------------------------------ properties

\* the calls of op recorded in a trace
Events(trace, op) == {i \in DOMAIN trace : trace[i].op = op}

PromptFileOrder ==
    <<"entity_extraction.txt", "summarize_descriptions.txt", "community_report.txt">>

PromptFile(i) == <<Path(output), PromptFileOrder[i]>>

\* C1: whenever prompt_tune returns normally, whatever `output` was (the default
\* and the empty string included), the output directory exists and holds the
\* three prompt files, the i-th holding exactly the UTF-8 encoding of prompts[i].
C1_FilesWritten ==
    t_pc = "returned" =>
        /\ DirExists(Path(output))
        /\ \A i \in 1..3 :
            /\ PromptFile(i) \in DOMAIN files
            /\ files[PromptFile(i)] = Encode(prompts[i])

\* prompt_tune has returned for output = "", with two different prompts
C1_Witness ==
    /\ t_pc = "returned"
    /\ output = <<>>
    /\ prompts # <<>>
    /\ prompts[1] # prompts[2]
    /\ files[<<CurDir, "summarize_descriptions.txt">>] = Encode(prompts[2])

\* C2: a search that returns normally returns the response field of the result
\* of search(query) unmodified; search was called exactly once, with the
\* caller's query.
C2_ResponseReturned ==
    fr.pc = "returned" =>
        LET S == Events(fr.trace, "search")
        IN  /\ Cardinality(S) = 1
            /\ \A i \in S : fr.trace[i].arg = fr.query /\ fr.trace[i].res = "ok"
            /\ fr.result.status = "returned"
            /\ fr.result.value = fr.search_result.response

\* local_search has returned a sequence of records
C2_Witness ==
    /\ fr.pc = "returned"
    /\ fr.fn = "local_search"
    /\ fr.result.value = <<"list", "r1", "r2">>

\* C3: a failure of a delegated component propagates unchanged: when
\* read_config_parameters or generate_indexing_prompts raises, prompt_tune
\* raises that failure, and no directory was made and no file opened or
\* written; when a callee of global_search or local_search raises, the function
\* raises that failure, makes no further call, returns nothing and reports no
\* success.
C3_FailuresPropagate ==
    /\ \A i \in DOMAIN t_trace :
        (/\ t_trace[i].res = "raise"
         /\ t_trace[i].op \in {"read_config_parameters", "generate_indexing_prompts"})
        => /\ t_pc = "raised"
           /\ t_result = [status |-> "raised", value |-> t_trace[i].op]
           /\ i = Len(t_trace)
           /\ \A j \in DOMAIN t_trace : t_trace[j].op \notin {"mkdir", "open", "write"}
           /\ dirs = InitialDirs
           /\ files = InitialFiles
    /\ \A i \in DOMAIN fr.trace :
        fr.trace[i].res = "raise"
        => /\ fr.pc = "raised"
           /\ fr.result = [status |-> "raised", value |-> <<fr.trace[i].op>>]
           /\ i = Len(fr.trace)
           /\ \A j \in DOMAIN fr.log : fr.log[j].level # "success"

\* generate_indexing_prompts has raised after prompt_tune was suspended and a
\* search call was made meanwhile
C3_Witness ==
    /\ t_pc = "raised"
    /\ t_result.value = "generate_indexing_prompts"
    /\ calls >= 1

\* C4: the caller's vector-store configuration holds, after any sequence of
\* search calls, the value it held before them.
C4_ConfigUntouched == config = config0

\* the calls prompt_tune makes, in the order of its body
TuneCallOrder ==
    <<"read_config_parameters", "generate_indexing_prompts", "mkdir",
      "open", "write", "open", "write", "open", "write">>

EngineOps == {"get_global_search_engine", "get_local_search_engine"}

\* C5: each entry point is one pass in a fixed order.  prompt_tune: the calls it
\* has made are a prefix of read_config_parameters, generate_indexing_prompts,
\* mkdir, then open and write of each file, none made twice and none after a
\* failure.  The searches: the engine is built from the configuration at most
\* once, search is called at most once, after the engine was built, nothing is
\* called after it, and a call returns only after its one search call.
C5_SinglePass ==
    /\ Len(t_trace) <= Len(TuneCallOrder)
    /\ \A i \in DOMAIN t_trace :
        /\ t_trace[i].op = TuneCallOrder[i]
           \/ (t_trace[i].op = "encode" /\ TuneCallOrder[i] = "write")
        /\ i < Len(t_trace) => t_trace[i].res = "ok"
    /\ t_pc = "returned" => Len(t_trace) = Len(TuneCallOrder)
    /\ Cardinality(Events(fr.trace, "search")) <= 1
    /\ Cardinality({i \in DOMAIN fr.trace : fr.trace[i].op \in EngineOps}) <= 1
    /\ \A i \in Events(fr.trace, "search") :
        /\ i = Len(fr.trace)
        /\ \E j \in 1..(i - 1) : fr.trace[j].op \in EngineOps
    /\ \A i \in DOMAIN fr.trace : i < Len(fr.trace) => fr.trace[i].res = "ok"
    /\ fr.pc = "returned" => Events(fr.trace, "search") # {}

\* prompt_tune has written all three files after a search call was made
C5_Witness ==
    /\ t_pc = "returned"
    /\ Len(t_trace) = Len(TuneCallOrder)
    /\ calls >= 1

\* C6: prompt_tune gives up the event loop only at the awaited
\* generate_indexing_prompts call or by ending; from the building of the path to
\* the last write the client coroutine takes no step; and a call of global_search
\* or local_search, once begun, runs to its end without prompt_tune taking a step.
C6_Step ==
    /\ (running = "tune" /\ running' # "tune")
        => (t_pc = "generate" \/ t_pc' \in {"returned", "raised"})
    /\ t_pc \in {"path", "mkdir", "open", "write"}
        => (clientVars' = clientVars /\ running = "tune")
    /\ (running = "client" /\ running' # "client") => fr.pc \in {"returned", "raised"}
    /\ fr.pc # "idle" => tuneVars' = tuneVars

C6_OneSuspensionPoint == [][C6_Step]_vars

\* the last file is about to be written, and a search call ran while
\* prompt_tune was suspended
C6_Witness ==
    /\ t_pc = "write"
    /\ k = 3
    /\ calls >= 1

\* C7: in local_search, read_indexer_covariates is called at most once, and not
\* at all when final_covariates is None; the engine is built with a covariates
\* mapping whose only key is "claims", holding [] when final_covariates is None
\* and the adapter's result for final_covariates otherwise.
C7_Covariates ==
    LET R == Events(fr.trace, "read_indexer_covariates")
    IN  /\ Cardinality(R) <= 1
        /\ fr.final_covariates = "None" => R = {}
        /\ \A i \in R : fr.trace[i].arg = fr.final_covariates
        /\ \A i \in Events(fr.trace, "get_local_search_engine") :
            LET cov == fr.trace[i].arg.covariates
            IN  /\ DOMAIN cov = {"claims"}
                /\ IF fr.final_covariates = "None"
                   THEN cov.claims = <<>>
                   ELSE /\ Cardinality(R) = 1
                        /\ cov.claims = <<"read_indexer_covariates", fr.final_covariates>>

\* a local search without covariates has built its engine and returned
C7_Witness ==
    /\ fr.pc = "returned"
    /\ fr.fn = "local_search"
    /\ fr.final_covariates = "None"
    /\ fr.engine.covariates = [claims |-> <<>>]

\* __get_embedding_description_store has returned to local_search
StoreReturned ==
    /\ fr.fn = "local_search"
    /\ fr.pc \in {"l_covariates", "l_reports", "l_text_units", "l_relationships",
                  "l_engine", "search", "finish", "returned"}

\* C8: the store returned by __get_embedding_description_store.  With a true
\* "overwrite" entry it is the factory's store for the configured type,
\* connected once, with the entities stored in it once.  Otherwise nothing was
\* stored in any store, the factory's store was connected and dropped, and the
\* store returned is a LanceDBVectorStore connected to db_uri ("./lancedb" by
\* default) with the existing table of its collection opened, whatever the type.
C8_Store ==
    StoreReturned =>
        LET args == ArgsDict
            st   == fr.stores[fr.store]
        IN  /\ fr.stores[1].cls = <<"VectorStoreFactory", fr.vector_store_type>>
            /\ Len(fr.stores[1].connects) = 1
            /\ IF "overwrite" \in DOMAIN args /\ args["overwrite"] = TRUE
               THEN /\ fr.store = 1
                    /\ Len(fr.stores) = 1
                    /\ st.stored = <<fr.entities>>
                    /\ Cardinality(Events(fr.trace, "store_entity_semantic_embeddings")) = 1
               ELSE /\ fr.store = 2
                    /\ Len(fr.stores) = 2
                    /\ \A i \in DOMAIN fr.stores : fr.stores[i].stored = <<>>
                    /\ Events(fr.trace, "store_entity_semantic_embeddings") = {}
                    /\ st.cls = <<"LanceDBVectorStore">>
                    /\ st.connects =
                        << [db_uri |-> IF "db_uri" \in DOMAIN args
                                       THEN args["db_uri"] ELSE "./lancedb"] >>
                    /\ st.document_collection = <<"open_table", fr.collection_name>>

\* another vector store type was configured, without "overwrite": the store
\* handed to the engine is the LanceDB one
C8_Witness ==
    /\ StoreReturned
    /\ fr.vector_store_type = AzureAISearch
    /\ fr.store = 2
    /\ fr.pc = "returned"

\* C9: the collection name of a local search is the "query_collection_name"
\* entry when there is one and "entity_description_embeddings" otherwise; it
\* replaces any "collection_name" entry; the store returned was built with it;
\* and a later call on the dict an earlier call left resolves the same name and
\* leaves the dict as it is.
C9_State ==
    (fr.fn = "local_search" /\ fr.collection_name # "unset") =>
        LET args == ArgsDict
        IN  /\ fr.collection_name =
                  IF "query_collection_name" \in DOMAIN args
                  THEN args["query_collection_name"]
                  ELSE "entity_description_embeddings"
            /\ "collection_name" \in DOMAIN args
            /\ args["collection_name"] = fr.collection_name
            /\ StoreReturned =>
                  fr.stores[fr.store].ctor["collection_name"] = fr.collection_name

C9_Step ==
    (/\ fr.pc = "ge_resolve" /\ fr'.pc = "ge_factory"
     /\ config # config0)
    => /\ fr'.args_ref = "cfg"
       /\ fr'.collection_name = config.d["collection_name"]
       /\ config' = config

C9_CollectionName == [](C9_State) /\ [][C9_Step]_vars

\* a second local search has resolved its name on a dict the first had changed
C9_Witness ==
    /\ calls = 1
    /\ fr.pc = "ge_factory"
    /\ config # config0
    /\ "query_collection_name" \in DOMAIN config.d
    /\ "collection_name" \in DOMAIN config0.d

\* the prompt files prompt_tune has opened, and those it has written
Opened == {i \in 1..3 : \E j \in DOMAIN t_trace :
              t_trace[j] = Ev("open", PromptFileOrder[i], "ok")}
Written == {i \in 1..3 : \E j \in DOMAIN t_trace :
              t_trace[j] = Ev("write", PromptFileOrder[i], "ok")}

\* C10: the files prompt_tune has written are, in every state, the first n of
\* entity_extraction.txt, summarize_descriptions.txt, community_report.txt; a
\* written file keeps its content; and when opening, encoding or writing the
\* k-th file fails, prompt_tune raises that failure and the files after the k-th
\* are neither opened nor written.
C10_PrefixNoRollback ==
    /\ \E n \in 0..3 : Written = 1..n
    /\ \E n \in 0..3 : Opened = 1..n
    /\ Written \subseteq Opened
    /\ \A i \in Written : files[PromptFile(i)] = Encode(prompts[i])
    /\ \A j \in DOMAIN t_trace :
        (t_trace[j].res = "raise" /\ t_trace[j].op \in {"open", "encode", "write"})
        => /\ t_pc = "raised"
           /\ t_result = [status |-> "raised", value |-> t_trace[j].op]
           /\ \A i \in 1..3 :
                t_trace[j].arg = PromptFileOrder[i]
                => /\ Written = 1..(i - 1)
                   /\ Opened \subseteq 1..i
                   /\ \A m \in (i + 1)..3 :
                        \/ PromptFile(m) \notin DOMAIN files
                        \/ files[PromptFile(m)] = StaleBytes

\* the write of the second file failed: the first is written, the third untouched
C10_Witness ==
    /\ t_pc = "raised"
    /\ t_trace[Len(t_trace)] = Ev("write", "summarize_descriptions.txt", "raise")
    /\ files[PromptFile(1)] = Encode(prompts[1])
    /\ PromptFile(3) \in DOMAIN files
    /\ files[PromptFile(3)] = StaleBytes

====
